---- MODULE Spec2Model ----
(***************************************************************************)
(* Model of scraping-stock (src/src/scraping/googlefinance.rs): the        *)
(* polling loop of fetch_stock_price in its two variants,                  *)
(* determine_stock_status (one thread, a plain HashMap) and                *)
(* async_determine_stock_status (one spawned thread per code and tick, a   *)
(* HashMap behind Arc<RwLock<..>>).                                        *)
(*                                                                         *)
(* Strings the program takes apart (the codes argument, a share code, the  *)
(* text of the price element) are sequences of one-token strings, so that  *)
(* split, to_uppercase and replace are computed rather than assumed.       *)
(* An f64 is a record [nan, v]: a number v or not-a-number.                *)
(***************************************************************************)
EXTENDS Integers, Sequences, FiniteSets, TLC

(* ------------------------------ bounds --------------------------------- *)

\* number of iterations of the polling loop that are explored
MaxTicks == 2

\* number of threads spawned, over all ticks, that are explored
MaxThreads == 3

\* prices quoted on a page are 1..MaxPrice (0.0 comes from a missing element)
MaxPrice == 1

(* ------------------------------ strings -------------------------------- *)

\* str::to_uppercase, one character at a time
UpperChar(c) ==
    CASE c = "a" -> "A"
      [] c = "b" -> "B"
      [] c = "i" -> "I"
      [] c = "x" -> "X"
      [] OTHER   -> c

to_uppercase(s) == [i \in 1..Len(s) |-> UpperChar(s[i])]

\* str::split(sep) collected: the pieces between the separators, in order;
\* always at least one piece (the empty string splits into one empty piece)
split(s, sep) ==
    LET seps   == { i \in 1..Len(s) : s[i] = sep }
        n      == Cardinality(seps)
        pos(j) == IF j = 0 THEN 0
                  ELSE IF j = n + 1 THEN Len(s) + 1
                  ELSE CHOOSE i \in seps : Cardinality({ x \in seps : x <= i }) = j
    IN  [j \in 1..(n + 1) |-> SubSeq(s, pos(j - 1) + 1, pos(j) - 1)]

\* str::replace(pat, ""), pat one token
remove(s, pat) == SelectSeq(s, LAMBDA c : c # pat)

(* -------------------------------- f64 ---------------------------------- *)

F64(n) == [nan |-> FALSE, v |-> n]

NaN == [nan |-> TRUE, v |-> 0]

\* f64::partial_cmp: None when either side is not-a-number
partial_cmp(a, b) ==
    IF a.nan \/ b.nan THEN "None"
    ELSE IF a.v > b.v THEN "Greater"
    ELSE IF a.v < b.v THEN "Less"
    ELSE "Equal"

Digits == << "1", "2", "3", "4", "5", "6", "7", "8", "9" >>

DigitValue(c) ==
    IF \E d \in 1..Len(Digits) : Digits[d] = c
    THEN CHOOSE d \in 1..Len(Digits) : Digits[d] = c
    ELSE IF c = "0" THEN 0 ELSE -1

\* the number a run of decimal digits denotes
DecimalValue(s) ==
    LET value[i \in 0..Len(s)] ==
            IF i = 0 THEN 0 ELSE 10 * value[i - 1] + DigitValue(s[i])
    IN  value[Len(s)]

\* str::parse::<f64>() as an Option (a sequence of at most one value):
\* a non-empty run of digits is a number, "NaN" is not-a-number, anything
\* else (the empty string too) is an error
parse_f64(s) ==
    IF s = << "NaN" >> THEN << NaN >>
    ELSE IF s # << >> /\ \A i \in 1..Len(s) : DigitValue(s[i]) >= 0
         THEN << F64(DecimalValue(s)) >>
    ELSE << >>

(* ------------------------------- Stock --------------------------------- *)

Stock(symbol, company_name, price, status) ==
    [symbol |-> symbol, company_name |-> company_name,
     price |-> price, status |-> status]

\* the Stock the spawned thread falls back on when the map has no entry
DefaultStock == Stock(<< >>, "", F64(0), "")

\* a value for a local that holds nothing (not yet assigned, or dead)
NoStock == Stock(<< >>, "", F64(0), "-")

\* a variant that takes every ordering but Greater and Equal for Less
status_without_fallback(nstock, past_stock) ==
    CASE partial_cmp(nstock.price, past_stock.price) = "Greater" -> "up"
      [] partial_cmp(nstock.price, past_stock.price) = "Equal"   -> "same"
      [] OTHER                                                   -> "down"

get_stock_valuation_status(nstock, past_stock) ==
    CASE partial_cmp(nstock.price, past_stock.price) = "Greater" -> "up"
      [] partial_cmp(nstock.price, past_stock.price) = "Less"    -> "down"
      [] OTHER                                                   -> "same"

(* ------------------------------ HashMap -------------------------------- *)

EmptyMap == << >>

\* HashMap::get as an Option (a sequence of at most one value)
get(m, k) == IF k \in DOMAIN m THEN << m[k] >> ELSE << >>

\* a variant that keeps the entry of k alone
insert_alone(m, k, v) == [x \in {k} |-> v]

\* HashMap::insert: the entry of k is replaced, every other entry is kept
insert(m, k, v) == [x \in (DOMAIN m) \cup {k} |-> IF x = k THEN v ELSE m[x]]

unwrap_or(opt, default) == IF opt = << >> THEN default ELSE opt[1]

(* ------------------------------- pages --------------------------------- *)

\* What fetch_from_google_finance returns: the elements the two selectors
\* match, each given by its first text node.  company/price are sequences
\* of matched elements (empty: the selector matches nothing).
Page(company, price) == [company |-> company, price |-> price]

NoPage == Page(<< >>, << >>)

Pages ==
    { Page(<< >>, << >>) }
    \cup { Page(<< "Co" >>, << << "$", Digits[v] >> >>) : v \in 1..MaxPrice }
    \cup { Page(<< "Co" >>, << << "NaN" >> >>) }

company_name_of(html_content) ==
    IF html_content.company = << >> THEN "N/A" ELSE html_content.company[1]

\* the text of the price element without "$", "Rp " (Rp and a no-break
\* space, one token here) and ",", parsed as f64; 0.0 when there is no
\* element or the text does not parse
stock_value_of(html_content) ==
    IF html_content.price = << >> THEN F64(0)
    ELSE unwrap_or(
            parse_f64(remove(remove(remove(html_content.price[1], "$"),
                                    "Rp "), ",")),
            F64(0))

stock_code_of(stock) == Head(split(to_uppercase(stock), ":"))

\* parse_stock_value: the two selectors are constants that always parse,
\* so the result is always Ok
parse_stock_value(html_content, stock) ==
    Stock(stock_code_of(stock), company_name_of(html_content),
          stock_value_of(html_content), "up")

(* ------------------------------- state --------------------------------- *)

VARIABLES
    args,       \* CLI: [codes, use_async]
    pc,         \* where the main thread is: "dispatch", "cycle", "sleep", "panicked"
    tick,       \* iteration of the polling loop, from 1
    idx,        \* position in the split codes of the code handled next
    html,       \* determine_stock_status: html_content of the code in hand
    past_data,  \* determine_stock_status: HashMap<String, Stock>
    data,       \* async_determine_stock_status: the HashMap inside the RwLock
    lock,       \* the RwLock: [readers: set of thread ids, writer: thread id or 0]
    threads,    \* the spawned threads, by id in spawn order
    stdout      \* the lines printed, in order

vars == << args, pc, tick, idx, html, past_data, data, lock, threads, stdout >>

\* the values --codes takes here: one plain code, one lower-case code with
\* an exchange, two different plain codes
CodesChoices ==
    { << "B" >>,
      << "b", ":", "i" >>,
      << "A", ",", "B" >> }

\* args.codes.split(",")
codes == split(args.codes, ",")

\* fetch_stock_price: which loop the use_async flag starts
Mode == IF args.use_async THEN "determine_stock_status"
        ELSE "async_determine_stock_status"

Sequential == Mode = "determine_stock_status"

Concurrent == Mode = "async_determine_stock_status"

\* the map of the loop that runs
Store == IF Sequential THEN past_data ELSE data

\* a thread as thread::spawn leaves it: about to fetch
Thread(share_code, t) ==
    [share_code |-> share_code, pc |-> "fetch", tick |-> t,
     new_stock |-> NoStock, past_stock |-> NoStock]

Init ==
    /\ args \in [codes : CodesChoices, use_async : BOOLEAN]
    /\ pc = "dispatch"
    /\ tick = 1
    /\ idx = 1
    /\ html = NoPage
    /\ past_data = EmptyMap
    /\ data = EmptyMap
    /\ lock = [readers |-> {}, writer |-> 0]
    /\ threads = << >>
    /\ stdout = << >>

(* ---------------------- determine_stock_status ------------------------- *)

\* fetch_from_google_finance(share_code) returns Ok(html_content)
SeqFetchOk ==
    /\ Sequential /\ pc = "dispatch" /\ idx <= Len(codes)
    /\ \E page \in Pages : html' = page
    /\ pc' = "cycle"
    /\ UNCHANGED << args, tick, idx, past_data, data, lock, threads, stdout >>

\* fetch_from_google_finance(share_code) returns Err: unwrap panics on the
\* main thread and the process ends
SeqFetchErr ==
    /\ Sequential /\ pc = "dispatch" /\ idx <= Len(codes)
    /\ pc' = "panicked"
    /\ UNCHANGED << args, tick, idx, html, past_data, data, lock, threads, stdout >>

\* the key past_data is looked up under
SeqLookupKey(share_code, new_stock) == new_stock.symbol

\* the key past_data is inserted under
SeqInsertKey(share_code, new_stock) == share_code

\* the rest of the closure for one share_code: parse, look the past stock
\* up, classify and print when there is one, insert
SeqCycleResult(map, share_code, html_content) ==
    LET new_stock  == parse_stock_value(html_content, share_code)
        past       == get(map, SeqLookupKey(share_code, new_stock))
        nstock     == [new_stock EXCEPT
                         !.status = get_stock_valuation_status(new_stock, past[1])]
        stock      == IF past = << >> THEN new_stock ELSE nstock
    IN  [map     |-> insert(map, SeqInsertKey(share_code, new_stock), stock),
         printed |-> IF past = << >> THEN << >> ELSE << nstock >>,
         stock   |-> stock]

SeqCycle ==
    /\ Sequential /\ pc = "cycle"
    /\ LET r == SeqCycleResult(past_data, codes[idx], html) IN
        /\ past_data' = r.map
        /\ stdout' = stdout \o r.printed
    /\ html' = NoPage
    /\ idx' = idx + 1
    /\ pc' = "dispatch"
    /\ UNCHANGED << args, tick, data, lock, threads >>

\* a variant that goes to sleep with the last code of the tick still to do
SeqSleepEarly ==
    /\ Sequential /\ pc = "dispatch" /\ idx >= Len(codes)
    /\ pc' = "sleep"
    /\ UNCHANGED << args, tick, idx, html, past_data, data, lock, threads, stdout >>

\* every code of the tick is done: thread::sleep(interval)
SeqSleep ==
    /\ Sequential /\ pc = "dispatch" /\ idx > Len(codes)
    /\ pc' = "sleep"
    /\ UNCHANGED << args, tick, idx, html, past_data, data, lock, threads, stdout >>

\* the sleep ends and the loop starts its next iteration
SeqWake ==
    /\ Sequential /\ pc = "sleep" /\ tick < MaxTicks
    /\ tick' = tick + 1
    /\ idx' = 1
    /\ pc' = "dispatch"
    /\ UNCHANGED << args, html, past_data, data, lock, threads, stdout >>

(* -------------------- async_determine_stock_status --------------------- *)

Tids == DOMAIN threads

\* thread::spawn for the next code of this tick; the loop goes on at once
Spawn ==
    /\ Concurrent /\ pc = "dispatch" /\ idx <= Len(codes)
    /\ Len(threads) < MaxThreads
    /\ threads' = Append(threads, Thread(codes[idx], tick))
    /\ idx' = idx + 1
    /\ UNCHANGED << args, pc, tick, html, past_data, data, lock, stdout >>

\* a variant that joins the threads of the tick before it sleeps
AsyncSleepAfterJoin ==
    /\ Concurrent /\ pc = "dispatch" /\ idx > Len(codes)
    /\ \A t \in DOMAIN threads : threads[t].pc \in {"done", "panicked"}
    /\ pc' = "sleep"
    /\ UNCHANGED << args, tick, idx, html, past_data, data, lock, threads, stdout >>

\* a thread is spawned for every code: thread::sleep(interval), whatever
\* the spawned threads are doing (no JoinHandle is kept)
AsyncSleep ==
    /\ Concurrent /\ pc = "dispatch" /\ idx > Len(codes)
    /\ pc' = "sleep"
    /\ UNCHANGED << args, tick, idx, html, past_data, data, lock, threads, stdout >>

\* the sleep ends and the loop starts its next iteration
AsyncWake ==
    /\ Concurrent /\ pc = "sleep" /\ tick < MaxTicks
    /\ tick' = tick + 1
    /\ idx' = 1
    /\ pc' = "dispatch"
    /\ UNCHANGED << args, html, past_data, data, lock, threads, stdout >>

\* fetch_from_google_finance returns Ok(html_content) in thread t, and
\* parse_stock_value(html_content, share_code) makes new_stock of it
ThreadFetchOk(t) ==
    /\ threads[t].pc = "fetch"
    /\ \E html_content \in Pages :
         threads' = [threads EXCEPT
                       ![t].pc = "read",
                       ![t].new_stock =
                           parse_stock_value(html_content, threads[t].share_code)]
    /\ UNCHANGED << args, pc, tick, idx, html, past_data, data, lock, stdout >>

\* a variant in which the thread of a failed fetch goes on with the
\* default Stock
ThreadFetchErrCarriesOn(t) ==
    /\ threads[t].pc = "fetch"
    /\ threads' = [threads EXCEPT ![t].pc = "read", ![t].new_stock = DefaultStock]
    /\ UNCHANGED << args, pc, tick, idx, html, past_data, data, lock, stdout >>

\* fetch_from_google_finance returns Err in thread t: unwrap panics and
\* the thread ends; it holds no lock, the other threads go on
ThreadFetchErr(t) ==
    /\ threads[t].pc = "fetch"
    /\ threads' = [threads EXCEPT ![t].pc = "panicked"]
    /\ UNCHANGED << args, pc, tick, idx, html, past_data, data, lock, stdout >>

\* a variant that grants the read lock while a thread holds the write lock
ThreadAcquireReadUnguarded(t) ==
    /\ threads[t].pc = "read"
    /\ lock' = [lock EXCEPT !.readers = @ \cup {t}]
    /\ threads' = [threads EXCEPT ![t].pc = "reading"]
    /\ UNCHANGED << args, pc, tick, idx, html, past_data, data, stdout >>

\* RwLock::read: granted while no thread holds the write lock
ThreadAcquireRead(t) ==
    /\ threads[t].pc = "read"
    /\ lock.writer = 0
    /\ lock' = [lock EXCEPT !.readers = @ \cup {t}]
    /\ threads' = [threads EXCEPT ![t].pc = "reading"]
    /\ UNCHANGED << args, pc, tick, idx, html, past_data, data, stdout >>

\* the key the shared map is looked up under
AsyncLookupKey(share_code, new_stock) == share_code

\* a variant that keys the entry by the code and the status it carries
AsyncInsertKeyWithStatus(share_code, new_stock) ==
    share_code \o << new_stock.status >>

\* the key the shared map is inserted under
AsyncInsertKey(share_code, new_stock) == share_code

\* the past stock a thread compares with: the entry, or the default Stock
past_stock_of(map, share_code, new_stock) ==
    unwrap_or(get(map, AsyncLookupKey(share_code, new_stock)), DefaultStock)

\* new_stock with the status the thread gives it
classified(new_stock, past_stock) ==
    [new_stock EXCEPT !.status = get_stock_valuation_status(new_stock, past_stock)]

\* a variant that keeps the read guard after the lookup
ThreadReadPriorKeepsGuard(t) ==
    /\ threads[t].pc = "reading"
    /\ LET past_stock == past_stock_of(data, threads[t].share_code,
                                       threads[t].new_stock)
       IN threads' = [threads EXCEPT
                        ![t].pc = "write",
                        ![t].past_stock = past_stock,
                        ![t].new_stock = classified(threads[t].new_stock, past_stock)]
    /\ UNCHANGED << args, pc, tick, idx, html, past_data, data, lock, stdout >>

\* past_stock = .get(share_code).unwrap_or(default).clone() under the read
\* guard, the guard dropped at the end of the statement, then the status
\* of new_stock computed from the clone
ThreadReadPrior(t) ==
    /\ threads[t].pc = "reading"
    /\ lock' = [lock EXCEPT !.readers = @ \ {t}]
    /\ LET past_stock == past_stock_of(data, threads[t].share_code,
                                       threads[t].new_stock)
       IN threads' = [threads EXCEPT
                        ![t].pc = "write",
                        ![t].past_stock = past_stock,
                        ![t].new_stock = classified(threads[t].new_stock, past_stock)]
    /\ UNCHANGED << args, pc, tick, idx, html, past_data, data, stdout >>

\* a variant that grants the write lock in spawn order: only once every
\* thread spawned earlier has ended
ThreadAcquireWriteInOrder(t) ==
    /\ threads[t].pc = "write"
    /\ lock.writer = 0 /\ lock.readers = {}
    /\ \A u \in 1..(t - 1) : threads[u].pc \in {"done", "panicked"}
    /\ lock' = [lock EXCEPT !.writer = t]
    /\ threads' = [threads EXCEPT ![t].pc = "writing"]
    /\ UNCHANGED << args, pc, tick, idx, html, past_data, data, stdout >>

\* RwLock::write: granted while no thread holds the lock either way
ThreadAcquireWrite(t) ==
    /\ threads[t].pc = "write"
    /\ lock.writer = 0 /\ lock.readers = {}
    /\ lock' = [lock EXCEPT !.writer = t]
    /\ threads' = [threads EXCEPT ![t].pc = "writing"]
    /\ UNCHANGED << args, pc, tick, idx, html, past_data, data, stdout >>

\* .insert(share_code, new_stock.clone()) under the write guard, the guard
\* dropped at the end of the statement
ThreadInsert(t) ==
    /\ threads[t].pc = "writing"
    /\ data' = insert(data,
                      AsyncInsertKey(threads[t].share_code, threads[t].new_stock),
                      threads[t].new_stock)
    /\ lock' = [lock EXCEPT !.writer = 0]
    /\ threads' = [threads EXCEPT ![t].pc = "print"]
    /\ UNCHANGED << args, pc, tick, idx, html, past_data, stdout >>

\* println!("New status = {:?}", new_stock), and the thread ends
ThreadPrint(t) ==
    /\ threads[t].pc = "print"
    /\ stdout' = Append(stdout, threads[t].new_stock)
    /\ threads' = [threads EXCEPT ![t].pc = "done", ![t].new_stock = NoStock,
                                  ![t].past_stock = NoStock]
    /\ UNCHANGED << args, pc, tick, idx, html, past_data, data, lock >>

(* --------------------------- specification ----------------------------- *)

MainSequential == SeqFetchOk \/ SeqFetchErr \/ SeqCycle \/ SeqSleep \/ SeqWake

MainConcurrent == Spawn \/ AsyncSleep \/ AsyncWake

ThreadStep(t) ==
    \/ ThreadFetchOk(t)
    \/ ThreadFetchErr(t)
    \/ ThreadAcquireRead(t)
    \/ ThreadReadPrior(t)
    \/ ThreadAcquireWrite(t)
    \/ ThreadInsert(t)
    \/ ThreadPrint(t)

Next ==
    \/ MainSequential
    \/ MainConcurrent
    \/ \E t \in Tids : ThreadStep(t)

Spec == Init /\ [][Next]_vars

\* the coordinator of the concurrent loop is a thread the scheduler keeps
\* running and its sleep ends; nothing is assumed of the spawned threads,
\* whose fetch may never return
\* Liveness is explored on the runs of one configured code, in which a tick
\* spawns one thread.
LiveInit == Init /\ Len(codes) = 1

LiveSpec == LiveInit /\ [][Next]_vars /\ WF_vars(MainConcurrent)

\* the fetch of thread t returns, with a page or with an error
FetchReturns(t) == t \in Tids /\ (ThreadFetchOk(t) \/ ThreadFetchErr(t))

\* a step of thread t after its fetch: what the scheduler and the lock
\* decide, not the network
AfterFetch(t) ==
    /\ t \in Tids
    /\ \/ ThreadAcquireRead(t)
       \/ ThreadReadPrior(t)
       \/ ThreadAcquireWrite(t)
       \/ ThreadInsert(t)
       \/ ThreadPrint(t)

\* fair scheduling: the coordinator and every thread past its fetch get to
\* run; the fetch of every thread but the first returns, the fetch of the
\* first may never return
FairSpec ==
    /\ LiveInit /\ [][Next]_vars
    /\ WF_vars(MainConcurrent)
    /\ \A t \in 1..MaxThreads : WF_vars(AfterFetch(t))
    /\ \A t \in 2..MaxThreads : WF_vars(FetchReturns(t))

(* ------------------------------ claims --------------------------------- *)

\* thread t commits in this step
Commits(t) == t \in Tids /\ threads[t].pc = "writing" /\ threads'[t].pc = "print"

\* the sequential loop finishes the cycle of codes[idx] in this step
SeqCommits == Sequential /\ pc = "cycle" /\ pc' = "dispatch"

\* classify of the specification, on prices
Classify(new_price, previous_price) ==
    IF new_price.nan \/ previous_price.nan THEN "same"
    ELSE IF new_price.v > previous_price.v THEN "up"
    ELSE IF new_price.v < previous_price.v THEN "down"
    ELSE "same"

\* the price stored under key k, 0.0 when there is no entry
StoredPrice(map, k) == IF k \in DOMAIN map THEN map[k].price ELSE F64(0)

\* C1: in concurrent mode every commit of a thread stores a status that is
\* classify(its price, the price stored under its key immediately before
\* the commit, 0.0 when there was no entry).
C1_StatusAgainstPrecedingPrice ==
    [][\A t \in Tids :
         Commits(t) =>
            LET k == AsyncInsertKey(threads[t].share_code, threads[t].new_stock)
            IN  data'[k].status
                  = Classify(data'[k].price, StoredPrice(data, k))]_vars

\* C2: in both modes, when the store holds an observation with price p for
\* a code and a cycle of that code that no other cycle overlaps completes
\* with price q, the store then holds for the code an observation with
\* price q and status classify(q, p).  (A thread whose past_stock is still
\* the stored entry when it commits was overlapped by no other commit.)
C2_CycleUpdatesPriceAndStatus ==
    [][/\ SeqCommits =>
            LET k == SeqInsertKey(codes[idx], parse_stock_value(html, codes[idx]))
                q == stock_value_of(html)
            IN  k \in DOMAIN past_data =>
                  /\ k \in DOMAIN past_data'
                  /\ past_data'[k].price = q
                  /\ past_data'[k].status = Classify(q, past_data[k].price)
       /\ \A t \in Tids :
            Commits(t) =>
               LET k == AsyncInsertKey(threads[t].share_code, threads[t].new_stock)
                   q == threads[t].new_stock.price
               IN  (k \in DOMAIN data /\ data[k] = threads[t].past_stock) =>
                     /\ k \in DOMAIN data'
                     /\ data'[k].price = q
                     /\ data'[k].status = Classify(q, data[k].price)]_vars

\* C3: a fetch failure of one code is confined to that code's cycle: in
\* both modes the loop that dispatches the codes keeps running.
C3_FailureConfined == pc # "panicked"

\* what one thread of the concurrent loop makes of map when it runs its
\* whole closure alone: the map it leaves and the lines it prints
AsyncCycleResult(map, share_code, html_content) ==
    LET parsed    == parse_stock_value(html_content, share_code)
        new_stock == classified(parsed, past_stock_of(map, share_code, parsed))
    IN  [map     |-> insert(map, AsyncInsertKey(share_code, new_stock), new_stock),
         printed |-> << new_stock >>]

\* C4: the two modes are observationally equivalent: a cycle of the
\* sequential loop leaves the map and prints the lines that a thread of the
\* concurrent loop, run alone on the same map, code and page, leaves and
\* prints.
C4_ModesEquivalent ==
    [][SeqCommits =>
         LET r == AsyncCycleResult(past_data, codes[idx], html)
         IN  /\ past_data' = r.map
             /\ stdout' = stdout \o r.printed]_vars

\* the key a cycle of share_code looks its past stock up under, and the key
\* it commits under, in the mode that runs
LookupKey(share_code) ==
    IF Sequential
    THEN SeqLookupKey(share_code, parse_stock_value(NoPage, share_code))
    ELSE AsyncLookupKey(share_code, parse_stock_value(NoPage, share_code))

InsertKey(share_code) ==
    IF Sequential
    THEN SeqInsertKey(share_code, parse_stock_value(NoPage, share_code))
    ELSE AsyncInsertKey(share_code, parse_stock_value(NoPage, share_code))

\* C5: read-your-write, in both modes: once a cycle has committed an
\* observation for a configured code, the lookup of the next cycle of that
\* code returns that observation; the lookup key is the commit key.
C5_ReadYourWrite ==
    \A i \in 1..Len(codes) :
        InsertKey(codes[i]) \in DOMAIN Store =>
            /\ LookupKey(codes[i]) = InsertKey(codes[i])
            /\ get(Store, LookupKey(codes[i])) = << Store[InsertKey(codes[i])] >>

\* C6: the store key of a configured code is its normalized form (upper
\* case, cut at the first ':'), in both modes, so that no two entries of
\* the store have keys that normalize to the same symbol.
C6_KeysNormalized ==
    /\ \A k \in DOMAIN Store : k = stock_code_of(k)
    /\ \A k1, k2 \in DOMAIN Store :
          stock_code_of(k1) = stock_code_of(k2) => k1 = k2

\* C7: in both modes the first observation committed under a key (no entry
\* before) has status "up" when its price is greater than 0 and "same" when
\* its price is 0.
C7_FirstObservation ==
    [][\A k \in (DOMAIN Store') \ (DOMAIN Store) :
         LET first == Store'[k]
         IN  /\ (~first.price.nan /\ first.price.v > 0) => first.status = "up"
             /\ (~first.price.nan /\ first.price.v = 0) => first.status = "same"]_vars

\* the f64 values a price takes within the bounds
F64Values == { F64(n) : n \in 0..MaxPrice } \cup { NaN }

\* the status get_stock_valuation_status gives every pair of prices
StatusOfEveryPair ==
    \A a, b \in F64Values :
        LET status == get_stock_valuation_status(Stock(<< >>, "", a, "up"),
                                                 Stock(<< >>, "", b, ""))
        IN  /\ status \in {"up", "down", "same"}
            /\ (~a.nan /\ ~b.nan /\ a.v > b.v) => status = "up"
            /\ (~a.nan /\ ~b.nan /\ a.v < b.v) => status = "down"
            /\ (a.nan \/ b.nan \/ a.v = b.v) => status = "same"

\* C8: get_stock_valuation_status returns "up" when the new price is
\* greater than the previous one, "down" when it is less and "same" in
\* every other case (equal, or either not-a-number), for every pair of
\* prices, and so does every thread that has computed its status.
C8_StatusOfPrices ==
    /\ StatusOfEveryPair
    /\ \A t \in Tids :
         threads[t].pc \in {"write", "writing"} =>
            threads[t].new_stock.status
              = Classify(threads[t].new_stock.price, threads[t].past_stock.price)

\* a thread has compared a not-a-number price with a stored price
C8_Witness ==
    \E t \in Tids :
        /\ threads[t].pc = "write"
        /\ threads[t].new_stock.price = NaN
        /\ threads[t].past_stock.price = F64(1)
        /\ threads[t].new_stock.status = "same"

AllDone == Tids # {} /\ \A t \in Tids : threads[t].pc = "done"

\* C9: in concurrent mode, when the threads of N distinct configured codes
\* have all completed the map holds exactly N entries; a commit sets the
\* entry of its own key to its observation and leaves every other entry as
\* it is, and nothing but a commit changes the map, so that each entry is
\* the last commit of its code whatever the order of the commits.
C9_DistinctCommits ==
    /\ [](Concurrent /\ AllDone =>
            Cardinality(DOMAIN data)
              = Cardinality({ threads[t].share_code : t \in Tids }))
    /\ [][\A t \in Tids :
            Commits(t) =>
               /\ threads[t].share_code \in DOMAIN data'
               /\ data'[threads[t].share_code] = threads[t].new_stock
               /\ \A k \in (DOMAIN data) \ {threads[t].share_code} :
                     k \in DOMAIN data' /\ data'[k] = data[k]]_vars
    /\ [][data' # data => \E t \in Tids : Commits(t)]_vars

\* three threads of two codes have completed, in two ticks
C9_Witness ==
    /\ Concurrent /\ AllDone
    /\ Len(threads) = 3
    /\ Cardinality(DOMAIN data) = 2
    /\ threads[2].share_code # threads[1].share_code
    /\ threads[3].tick = 2

\* tick n of the concurrent loop, with room within MaxThreads for a thread
\* of every code
TickWithRoom(n) == Concurrent /\ tick = n /\ n * Len(codes) <= MaxThreads

\* C10: the coordinator of the concurrent loop waits for no thread: its
\* spawn, sleep and wake steps are enabled whatever the threads of earlier
\* ticks are doing, and every tick is followed by the next one as long as
\* the bounds leave room for it.
C10_FireAndForget ==
    /\ [](Concurrent /\ pc = "dispatch" /\ idx <= Len(codes)
             /\ Len(threads) < MaxThreads => ENABLED Spawn)
    /\ [](Concurrent /\ pc = "dispatch" /\ idx > Len(codes) => ENABLED AsyncSleep)
    /\ [](Concurrent /\ pc = "sleep" /\ tick < MaxTicks => ENABLED AsyncWake)
    /\ \A n \in 1..(MaxTicks - 1) :
         TickWithRoom(n) ~> (tick = n + 1)

\* the second tick has begun while a thread of the first is still fetching
C10_Witness ==
    /\ Concurrent /\ tick = 2
    /\ \E t \in Tids : threads[t].tick = 1 /\ threads[t].pc = "fetch"

\* the threads that hold the read guard, and those that hold the write guard
Readers == { t \in Tids : threads[t].pc = "reading" }

Writers == { t \in Tids : threads[t].pc = "writing" }

\* every entry a --codes value can name
AllEntries ==
    UNION { { split(c, ",")[i] : i \in 1..Len(split(c, ",")) } : c \in CodesChoices }

\* for every entry, the observations a cycle of it can make: the symbol,
\* name and price parse_stock_value takes from one page, and a status
WholeOf ==
    [ e \in AllEntries |->
        { [parse_stock_value(html_content, e) EXCEPT !.status = status] :
            html_content \in Pages, status \in {"up", "down", "same"} } ]

\* an observation all of whose fields one cycle of share_code made
Whole(stock, share_code) == stock \in WholeOf[share_code]

\* C11: the accesses to the shared map exclude each other: no thread holds
\* the write guard while another thread holds the read or the write guard;
\* every entry of the map is the whole observation of one commit, and what
\* a lookup returned is the default (no prior) or such a whole observation.
C11_StoreAccessAtomic ==
    /\ Cardinality(Writers) <= 1
    /\ Writers # {} => Readers = {}
    /\ lock.readers = Readers
    /\ lock.writer # 0 <=> Writers = {lock.writer}
    /\ \A k \in DOMAIN data : Whole(data[k], k)
    /\ \A t \in Tids :
         threads[t].pc \in {"write", "writing"} =>
            \/ threads[t].past_stock = DefaultStock
            \/ Whole(threads[t].past_stock, threads[t].share_code)

\* a thread holds the write guard for its commit while another thread of
\* the same code has its lookup pending, and the map holds an entry
C11_Witness ==
    \E t, u \in Tids :
        /\ threads[t].pc = "writing"
        /\ threads[u].pc = "read"
        /\ threads[u].share_code = threads[t].share_code
        /\ data # EmptyMap

\* the entries --codes names, as a set
ConfiguredEntries == { codes[i] : i \in 1..Len(codes) }

\* a step removes no key from the map
KeysOnlyGrow == DOMAIN Store \subseteq DOMAIN Store'

\* the map is a function on its keys, the keys are configured entries and
\* there are no more of them than distinct configured entries
EntriesWithinConfigured ==
    /\ Store = [k \in DOMAIN Store |-> Store[k]]
    /\ DOMAIN Store \subseteq ConfiguredEntries
    /\ Cardinality(DOMAIN Store) <= Cardinality(ConfiguredEntries)

\* C12: in both loops the keys of the map only grow, each key has one
\* observation, and the map never has more entries than --codes has
\* distinct entries
C12_KeySetBounded ==
    /\ [][KeysOnlyGrow]_vars
    /\ []EntriesWithinConfigured

\* a second-tick thread has committed over an earlier entry and the map
\* holds as many entries as --codes names
C12_Witness ==
    /\ Concurrent
    /\ Cardinality(DOMAIN data) = 2
    /\ \E t \in Tids : threads[t].tick = 2 /\ threads[t].pc = "done"

\* thread t prints in this step
Emits(t) == t \in Tids /\ threads[t].pc = "print" /\ threads'[t].pc = "done"

\* C13: in both loops every committed observation is printed exactly once,
\* the first of a code included, and every printed observation is the one
\* its cycle commits: a cycle of the sequential loop appends the observation
\* it stores to the output, a thread appends the observation it stored, and
\* no other step prints.
C13_CommittedIsEmitted ==
    [][ /\ SeqCommits => stdout' = Append(stdout, past_data'[codes[idx]])
        /\ \A t \in Tids :
              /\ Commits(t) =>
                    data'[threads[t].share_code] = threads'[t].new_stock
              /\ Emits(t) => stdout' = Append(stdout, threads[t].new_stock)
        /\ stdout' # stdout => SeqCommits \/ \E t \in Tids : Emits(t)
      ]_vars

\* thread t is between taking the read guard for its lookup and the end
\* of its insert
InSection(t) == threads[t].pc \in {"reading", "write", "writing"}

\* C14: in the concurrent loop no two threads of one code are between
\* their lookup and their commit at the same time.
C14_OneTaskPerSymbol ==
    \A t, u \in Tids :
        /\ t # u
        /\ threads[t].share_code = threads[u].share_code
        /\ InSection(t)
        => ~InSection(u)

\* C15: the use_async flag starts the loop it names: threads are spawned
\* and the shared map is written only when the flag is set, and the
\* single-threaded loop runs only when it is not.
C15_ToggleSelectsMode ==
    /\ (threads # << >> \/ data # EmptyMap) => args.use_async
    /\ (pc = "cycle" \/ past_data # EmptyMap) => ~args.use_async

\* the sequential loop has one thread and at most one cycle in hand: a page
\* is held only during the cycle of codes[idx], and the codes before idx
\* are the ones this tick has finished, in the order of --codes
OneCycleInHand ==
    Sequential =>
        /\ threads = << >> /\ data = EmptyMap
        /\ idx \in 1..(Len(codes) + 1)
        /\ pc = "cycle" => idx <= Len(codes)
        /\ pc \in {"dispatch", "sleep"} => html = NoPage
        /\ pc = "sleep" => idx = Len(codes) + 1
        /\ DOMAIN past_data = IF tick = 1 THEN { codes[i] : i \in 1..(idx - 1) }
                                         ELSE ConfiguredEntries

\* a fetch starts only with no cycle in hand, the position moves on by one
\* exactly when the cycle of codes[idx] finishes by storing it, and a tick
\* starts only after the last code of the tick before
InOrderSteps ==
    Sequential =>
        /\ (pc = "dispatch" /\ pc' = "cycle") => idx' = idx /\ past_data' = past_data
        /\ SeqCommits => /\ idx' = idx + 1 /\ tick' = tick
                          /\ DOMAIN past_data' = DOMAIN past_data \cup {codes[idx]}
        /\ past_data' # past_data => SeqCommits
        /\ (idx' # idx /\ ~SeqCommits) =>
                idx = Len(codes) + 1 /\ idx' = 1 /\ tick' = tick + 1
        /\ tick' # tick => idx = Len(codes) + 1 /\ pc = "sleep"

\* C16: in the sequential loop the codes of a tick are handled in the order
\* given, one cycle is finished before the next fetch starts, the next
\* tick starts only after the last code, and at most one cycle is in
\* progress.
C16_SequentialInOrder ==
    /\ []OneCycleInHand
    /\ [][InOrderSteps]_vars

\* the second code of the second tick is in hand
C16_Witness ==
    /\ Sequential /\ tick = 2 /\ pc = "cycle" /\ idx = 2
    /\ DOMAIN past_data = ConfiguredEntries

\* the place of a step of a thread in their order, 0 for a thread that
\* panicked
StepOrder ==
    [fetch |-> 1, read |-> 2, reading |-> 3, write |-> 4, writing |-> 5,
     print |-> 6, done |-> 7, panicked |-> 0]

Rank(p) == StepOrder[p]

\* thread t panics in this step
Fails(t) == t \in Tids /\ threads[t].pc # "panicked" /\ threads'[t].pc = "panicked"

\* a thread that has not fetched, or whose fetch failed, holds no guard and
\* has nothing of the map; a thread past its fetch carries what
\* parse_stock_value made of a page for its code
StoreAfterFetchOnly ==
    \A t \in Tids :
        /\ threads[t].pc \in {"fetch", "panicked"} =>
              /\ t \notin lock.readers /\ lock.writer # t
              /\ threads[t].new_stock = NoStock
              /\ threads[t].past_stock = NoStock
        /\ threads[t].pc \in {"read", "reading", "write", "writing", "print"} =>
              Whole(threads[t].new_stock, threads[t].share_code)

\* a thread moves one step on in the order or panics at its fetch; the map
\* changes only in an insert and the lock only between read and insert; a
\* step in which a thread panics changes neither the map nor the lock and
\* prints nothing
OrderedSteps ==
    /\ \A t \in Tids :
          /\ threads'[t].pc # threads[t].pc =>
                \/ Rank(threads[t].pc) \in 1..6
                     /\ Rank(threads'[t].pc) = Rank(threads[t].pc) + 1
                \/ threads[t].pc = "fetch" /\ threads'[t].pc = "panicked"
          /\ Fails(t) => data' = data /\ lock' = lock /\ stdout' = stdout
    /\ data' # data => \E t \in Tids : Commits(t)
    /\ lock' # lock =>
          \E t \in Tids : /\ Rank(threads[t].pc) \in 2..5
                           /\ Rank(threads'[t].pc) = Rank(threads[t].pc) + 1

\* C17: in the concurrent loop the steps of a thread are in the order
\* fetch, extract, read prior, classify, commit, emit; a thread reads or
\* writes the map only after its fetch and extract succeeded, and a thread
\* whose fetch fails changes no entry and leaves the lock neither held nor
\* poisoned (it panics holding no guard).
C17_FailingTaskLeavesStore ==
    /\ []StoreAfterFetchOnly
    /\ [][OrderedSteps]_vars

\* a thread has panicked at its fetch, the map holds an entry and another
\* thread holds the write guard
C17_Witness ==
    \E t, u \in Tids :
        /\ threads[t].pc = "panicked"
        /\ threads[u].pc = "writing"
        /\ data # EmptyMap

\* thread t exists
Spawned(t) == t \in Tids

\* thread t has ended: it printed its observation, or its fetch failed
Ended(t) == t \in Tids /\ threads[t].pc \in {"done", "panicked"}

\* the sequential loop waits for the fetch of codes[idx]
SeqFetchPending == Sequential /\ pc = "dispatch" /\ idx <= Len(codes)

\* while the sequential loop waits for a fetch, the only step is that
\* fetch returning: no other code and no other tick starts
SeqWaitsForFetch ==
    SeqFetchPending =>
        /\ pc' \in {"cycle", "panicked"}
        /\ UNCHANGED << tick, idx, past_data, stdout, threads >>

GuardsWithinStatement ==
    /\ \A t \in lock.readers : t \in Tids /\ threads[t].pc = "reading"
    /\ lock.writer # 0 => lock.writer \in Tids /\ threads[lock.writer].pc = "writing"
    /\ \A t \in Tids :
          threads[t].pc \in {"fetch", "write"} =>
              t \notin lock.readers /\ lock.writer # t

\* the fetch of thread t and its extract have succeeded
Fetched(t) == t \in Tids /\ threads[t].pc = "read"

\* thread t has committed its observation and printed it
CommittedAndEmitted(t) == t \in Tids /\ threads[t].pc = "done"

\* C19: the lock of the shared map neither deadlocks nor starves a thread:
\* the read guard of the lookup is released before the write lock is asked
\* for, no guard is held across a fetch, and under fair scheduling every
\* thread whose fetch and extract succeeded commits and prints in the end.
C19_LockNeverBlocksForever ==
    /\ []GuardsWithinStatement
    /\ \A t \in 1..MaxThreads : Fetched(t) ~> CommittedAndEmitted(t)

\* a thread holds the write guard while another, its lookup done, waits for
\* the write lock
C19_Witness ==
    \E t, u \in Tids :
        /\ threads[t].pc = "writing"
        /\ threads[u].pc = "write"
        /\ lock.writer = t

====
